---- MODULE Spec2Model ----
(***************************************************************************)
(* Model of express-jobly's data layer: the partial-update compiler        *)
(* (helpers/sql.js) and the Company and Job repositories (models/*.js)     *)
(* running against a relational store.                                     *)
(***************************************************************************)
EXTENDS Integers, Sequences, FiniteSets, TLC

VARIABLES sqlIn, sqlOut, companies, jobs, nextId, inflight, last

vars == <<sqlIn, sqlOut, companies, jobs, nextId, inflight, last>>
sqlVars == <<sqlIn, sqlOut>>
dbVars == <<companies, jobs, nextId, inflight, last>>

(***************************************************************************)
(* JavaScript values.  Every value has the same shape so that values of    *)
(* different types can be compared: t is typeof-like, s the text of a      *)
(* string, n the integer part of a number and h its hundredths.            *)
(***************************************************************************)
Str(s) == [t |-> "string", s |-> s, n |-> 0, h |-> 0]
Num(n) == [t |-> "number", s |-> "", n |-> n, h |-> 0]
Frac(n, h) == [t |-> "number", s |-> "", n |-> n, h |-> h]
Bool(b) == [t |-> "boolean", s |-> "", n |-> (IF b THEN 1 ELSE 0), h |-> 0]
Null == [t |-> "null", s |-> "", n |-> 0, h |-> 0]
Undefined == [t |-> "undefined", s |-> "", n |-> 0, h |-> 0]

\* An object is its own enumerable properties in insertion order.
Obj(entries) == [kind |-> "object", entries |-> entries]
\* A primitive passed where an object is expected; the characters of a string
\* primitive are its indexed properties.
Prim(v, chars) == [kind |-> v.t, entries |-> [i \in 1..Len(chars) |-> [k |-> ToString(i - 1), v |-> Str(chars[i])]]]

\* JavaScript truthiness of a value.
Truthy(v) ==
  CASE v.t = "string" -> v.s # ""
    [] v.t = "number" -> (v.n # 0 \/ v.h # 0)
    [] v.t = "boolean" -> v.n = 1
    [] OTHER -> FALSE

HasKey(entries, key) == \E i \in 1..Len(entries) : entries[i].k = key

\* obj[key]: the property's value, undefined when the object has no such key.
Lookup(entries, key) ==
  IF HasKey(entries, key)
  THEN entries[CHOOSE i \in 1..Len(entries) : entries[i].k = key].v
  ELSE Undefined

\* Object.keys / Object.values: null and undefined cannot be converted to an
\* object (TypeError); booleans and numbers have no own properties.
ObjectKeysThrows(d) == d.kind \in {"null", "undefined"}
ObjectKeys(d) == [i \in 1..Len(d.entries) |-> d.entries[i].k]
ObjectValues(d) == [i \in 1..Len(d.entries) |-> d.entries[i].v]

RECURSIVE Join(_, _)
\* Array.prototype.join
Join(strs, sep) ==
  IF Len(strs) = 0 THEN ""
  ELSE IF Len(strs) = 1 THEN strs[1]
  ELSE strs[1] \o sep \o Join(Tail(strs), sep)

ColumnFor_Unmapped(jsToSql, colName) == colName

\* jsToSql[colName] || colName
ColumnFor(jsToSql, colName) ==
  IF Truthy(Lookup(jsToSql, colName)) THEN Lookup(jsToSql, colName).s ELSE colName

SetClause_ZeroBased(jsToSql, colName, idx) ==
  "\"" \o ColumnFor(jsToSql, colName) \o "\"=$" \o ToString(idx)

\* `"${jsToSql[colName] || colName}"=$${idx + 1}` with idx the 0-based index
SetClause(jsToSql, colName, idx) ==
  "\"" \o ColumnFor(jsToSql, colName) \o "\"=$" \o ToString(idx + 1)

SqlFailure(err) == [status |-> err, setCols |-> "", cols |-> <<>>, columns |-> <<>>, values |-> <<>>]

sqlForPartialUpdate_NoEmptyCheck(dataToUpdate, jsToSql) ==
  IF ObjectKeysThrows(dataToUpdate) THEN SqlFailure("TypeError")
  ELSE LET keys == ObjectKeys(dataToUpdate)
           cols == [i \in 1..Len(keys) |-> SetClause(jsToSql, keys[i], i - 1)]
       IN [status |-> "ok", setCols |-> Join(cols, ", "), cols |-> cols,
           columns |-> [i \in 1..Len(keys) |-> ColumnFor(jsToSql, keys[i])],
           values |-> ObjectValues(dataToUpdate)]

\* sqlForPartialUpdate: cols is the array built by keys.map, columns the
\* column each clause assigns (what the store reads back out of setCols).
sqlForPartialUpdate(dataToUpdate, jsToSql) ==
  IF ObjectKeysThrows(dataToUpdate) THEN SqlFailure("TypeError")
  ELSE LET keys == ObjectKeys(dataToUpdate)
       IN IF Len(keys) = 0 THEN SqlFailure("BadRequestError")
          ELSE LET cols == [i \in 1..Len(keys) |-> SetClause(jsToSql, keys[i], i - 1)]
               IN [status |-> "ok", setCols |-> Join(cols, ", "), cols |-> cols,
                   columns |-> [i \in 1..Len(keys) |-> ColumnFor(jsToSql, keys[i])],
                   values |-> ObjectValues(dataToUpdate)]

(***************************************************************************)
(* Inputs of the compiler.                                                 *)
(***************************************************************************)
MaxKeys == 2

SqlKeys == {"firstName", "age", "lastName"}
SqlVals == {Str("Aliya"), Num(32), Null}

\* All sequences of at most n entries with pairwise distinct keys.
RECURSIVE EntrySeqs(_, _, _)
EntrySeqs(keys, vals, n) ==
  IF n = 0 THEN {<<>>}
  ELSE LET shorter == EntrySeqs(keys, vals, n - 1)
       IN shorter \cup
          { Append(e, [k |-> key, v |-> val]) :
              e \in {x \in shorter : Len(x) = n - 1}, key \in keys, val \in vals }

DistinctKeys(entries) ==
  \A i, j \in 1..Len(entries) : entries[i].k = entries[j].k => i = j

SqlMappings == { Obj(e) : e \in {x \in EntrySeqs(SqlKeys, SqlVals, MaxKeys) : DistinctKeys(x)} }

SqlNonObjects ==
  { Prim(Bool(FALSE), <<>>), Prim(Bool(TRUE), <<>>), Prim(Num(7), <<>>),
    Prim(Str(""), <<>>), Prim(Str("ab"), <<"a", "b">>),
    Prim(Null, <<>>), Prim(Undefined, <<>>) }

\* Name maps, first the one of the helper's test.
SqlNameMaps ==
  { <<[k |-> "firstName", v |-> Str("first_name")], [k |-> "lastName", v |-> Str("last_name")],
      [k |-> "isAdmin", v |-> Str("is_admin")]>>,
    <<>>,
    <<[k |-> "age", v |-> Str("years")]>>,
    <<[k |-> "age", v |-> Str("")], [k |-> "firstName", v |-> Str("first_name")]>> }

NotCalled == [status |-> "not called", setCols |-> "", cols |-> <<>>, columns |-> <<>>, values |-> <<>>]


(***************************************************************************)
(* The relational store.  Rows hold JavaScript values as the driver hands  *)
(* them back; the store's own identifiers are the column names.            *)
(***************************************************************************)
Procs == {"p1", "p2"}
MaxJobId == 2

CompanyColumns == {"handle", "name", "description", "num_employees", "logo_url"}
JobColumns == {"id", "title", "salary", "equity", "company_handle"}

\* String(n) for a number with at most two decimals, as the driver sends it.
NumberToString(v) ==
  IF v.h = 0 THEN ToString(v.n)
  ELSE ToString(v.n) \o "." \o
       (IF v.h % 10 = 0 THEN ToString(v.h \div 10)
        ELSE IF v.h < 10 THEN "0" \o ToString(v.h) ELSE ToString(v.h))

\* A NUMERIC column keeps the scale it was written with and is read back as
\* text: 0.20 (a number) comes back "0.2", '0.30' comes back "0.30".
NumericIn(v) == IF v.t = "number" THEN Str(NumberToString(v)) ELSE v

\* The value a column stores for a parameter.
ColumnValue(col, v) == IF col = "equity" THEN NumericIn(v) ELSE v

\* SELECT handle FROM companies WHERE handle = $1
SelectCompanyByHandle(handle) == {c \in companies : c.handle = handle}

SelectJobById_All(id) == jobs

\* SELECT ... FROM jobs WHERE id = $1
SelectJobById(id) == {j \in jobs : j.id = id}

CompanyKeyFree_Unchecked(tbl, handle) == TRUE

\* Primary key of companies: handle.
CompanyKeyFree(tbl, handle) == \A c \in tbl : c.handle # handle

JobReferenceOk_Unchecked(tbl, handle) == TRUE

\* Foreign key jobs.company_handle -> companies.handle.
JobReferenceOk(tbl, handle) == \E c \in tbl : c.handle = handle

\* jobs j with j.company_handle = the handle (the join condition of Company.get)
JobsOfCompany(handle) == {j \in jobs : j.company_handle = handle}

\* A company owns its jobs: they are deleted with it.
CascadedJobs(handle) == JobsOfCompany(handle)

\* SET col_i = value_i applied to one row.
ApplySet(row, columns, values) ==
  [f \in DOMAIN row |->
     IF \E i \in 1..Len(columns) : columns[i] = f
     THEN ColumnValue(f, values[CHOOSE i \in 1..Len(columns) : columns[i] = f])
     ELSE row[f]]

\* RETURNING handle, name, description, num_employees AS "numEmployees", logo_url AS "logoUrl"
CompanyRecord(row) ==
  [handle |-> row.handle, name |-> row.name, description |-> row.description,
   numEmployees |-> row.num_employees, logoUrl |-> row.logo_url]

CreatedJobRecord_WithId(row) ==
  [id |-> row.id, title |-> row.title, salary |-> row.salary, equity |-> row.equity,
   companyHandle |-> row.company_handle]

\* RETURNING title, salary, equity, company_handle AS "companyHandle"
CreatedJobRecord(row) ==
  [title |-> row.title, salary |-> row.salary, equity |-> row.equity,
   companyHandle |-> row.company_handle]

\* RETURNING id, title, salary, equity, company_handle AS "companyHandle"
JobRecord(row) ==
  [id |-> row.id, title |-> row.title, salary |-> row.salary, equity |-> row.equity,
   companyHandle |-> row.company_handle]

\* INSERT INTO companies (handle, name, description, num_employees, logo_url)
CompanyRow(data) ==
  [handle |-> data.handle, name |-> data.name, description |-> data.description,
   num_employees |-> data.numEmployees, logo_url |-> data.logoUrl]

\* INSERT INTO jobs (title, salary, equity, company_handle) with the next id
JobRow(id, data) ==
  [id |-> Num(id), title |-> data.title, salary |-> data.salary,
   equity |-> ColumnValue("equity", data.equity), company_handle |-> data.companyHandle]


(***************************************************************************)
(* Inputs of the repositories.                                             *)
(***************************************************************************)
Handles == {Str("c1"), Str("c2")}

NewCompanies ==
  { [handle |-> Str("c1"), name |-> Str("Acme"), description |-> Str("d1"),
     numEmployees |-> Num(1), logoUrl |-> Null],
    [handle |-> Str("c1"), name |-> Str("bolt"), description |-> Str("d1"),
     numEmployees |-> Num(3), logoUrl |-> Str("u1")],
    [handle |-> Str("c2"), name |-> Str("Acme"), description |-> Str("d1"),
     numEmployees |-> Num(1), logoUrl |-> Null] }

NewJobs ==
  { [title |-> Str("dev"), salary |-> Num(10), equity |-> Frac(0, 20), companyHandle |-> h] :
      h \in Handles }
  \cup
  { [title |-> Str("Ops"), salary |-> Num(10), equity |-> Str("0"), companyHandle |-> h] :
      h \in Handles }

JobIds == {Num(i) : i \in 1..MaxJobId}

\* Company.update's name map
CompanyJsToSql ==
  <<[k |-> "numEmployees", v |-> Str("num_employees")], [k |-> "logoUrl", v |-> Str("logo_url")]>>

JobJsToSql_Renaming == <<[k |-> "companyHandle", v |-> Str("company_handle")]>>

\* Job.update's name map: {}
JobJsToSql == <<>>

CompanyUpdates ==
  { Obj(<<>>),
    Obj(<<[k |-> "name", v |-> Str("bolt")], [k |-> "numEmployees", v |-> Num(3)],
          [k |-> "logoUrl", v |-> Str("u1")]>>),
    Obj(<<[k |-> "handle", v |-> Str("c2")]>>),
    Obj(<<[k |-> "companyHandle", v |-> Str("c2")]>>) }

JobUpdates ==
  { Obj(<<>>),
    Obj(<<[k |-> "salary", v |-> Null], [k |-> "equity", v |-> Str("0.30")]>>),
    Obj(<<[k |-> "companyHandle", v |-> Str("c2")]>>),
    Obj(<<[k |-> "title", v |-> Str("Ops")], [k |-> "companyHandle", v |-> Str("c1")]>>) }

(***************************************************************************)
(* Calls.  A call that awaits two statements is two steps; inflight holds  *)
(* what it carries across the await.  last describes the step just taken.  *)
(***************************************************************************)
Idle == [op |-> "idle", args |-> <<>>]

\* What one turn of the event loop did: the call it belongs to, the tables it
\* started from and what it handed back (ret: the record returned, if any;
\* rows: the array returned by Company.get).
Event(op, stage, args, status, ret, rows) ==
  [op |-> op, stage |-> stage, args |-> args, status |-> status,
   ret |-> ret, rows |-> rows, pre |-> [companies |-> companies, jobs |-> jobs]]

TurnOpen == last.op = "none"

Suspend(p, op, args) == inflight' = [inflight EXCEPT ![p] = [op |-> op, args |-> args]]
Resume(p) == inflight' = [inflight EXCEPT ![p] = Idle]

PendingJobInserts == Cardinality({p \in Procs : inflight[p].op = "Job.create"})

CompanyCreateDuplicate_Never(data) == FALSE

\* Company.create: duplicateCheck.rows[0]
CompanyCreateDuplicate(data) == SelectCompanyByHandle(data.handle) # {}

\* Company.create up to its first await's result
CompanyCreateCheck(p, data) ==
  /\ TurnOpen
  /\ inflight[p].op = "idle"
  /\ IF CompanyCreateDuplicate(data)
     THEN /\ last' = Event("Company.create", "check", data, "BadRequestError", <<>>, {})
          /\ UNCHANGED <<companies, jobs, nextId, inflight>>
     ELSE /\ Suspend(p, "Company.create", data)
          /\ last' = Event("Company.create", "check", data, "pending", <<>>, {})
          /\ UNCHANGED <<companies, jobs, nextId>>
  /\ UNCHANGED sqlVars

\* Company.create from the INSERT on
CompanyCreateInsert(p) ==
  /\ TurnOpen
  /\ inflight[p].op = "Company.create"
  /\ LET data == inflight[p].args
         row == CompanyRow(data)
     IN IF CompanyKeyFree(companies, row.handle)
        THEN /\ companies' = companies \cup {row}
             /\ last' = Event("Company.create", "insert", data, "ok", <<CompanyRecord(row)>>, {})
        ELSE /\ last' = Event("Company.create", "insert", data, "StorageError", <<>>, {})
             /\ UNCHANGED companies
  /\ Resume(p)
  /\ UNCHANGED <<jobs, nextId>>
  /\ UNCHANGED sqlVars

ReadOnly_Clearing == companies' = {} /\ jobs' = {} /\ UNCHANGED nextId

\* A call that sends only SELECT statements leaves the store as it is.
ReadOnly == UNCHANGED <<companies, jobs, nextId>>

JoinRow_NoLogo(c, j) ==
  [handle |-> c.handle, name |-> c.name, description |-> c.description,
   numEmployees |-> c.num_employees, logoUrl |-> Null,
   id |-> j.id, title |-> j.title, salary |-> j.salary, equity |-> j.equity]

\* One row of the LEFT JOIN of Company.get; a company without jobs pairs with nulls.
JoinRow(c, j) ==
  [handle |-> c.handle, name |-> c.name, description |-> c.description,
   numEmployees |-> c.num_employees, logoUrl |-> c.logo_url,
   id |-> j.id, title |-> j.title, salary |-> j.salary, equity |-> j.equity]

NoJob == [id |-> Null, title |-> Null, salary |-> Null, equity |-> Null, company_handle |-> Null]

\* Company.get's second query
CompanyGetRows(handle) ==
  UNION { IF JobsOfCompany(c.handle) = {}
          THEN {JoinRow(c, NoJob)}
          ELSE {JoinRow(c, j) : j \in JobsOfCompany(c.handle)} :
          c \in SelectCompanyByHandle(handle) }

\* Company.get's outcome when both of its queries see the current state
CompanyGetResult(handle) ==
  IF SelectCompanyByHandle(handle) = {}
  THEN [status |-> "NotFoundError", rows |-> {}]
  ELSE [status |-> "ok", rows |-> CompanyGetRows(handle)]

\* Company.get up to its first await's result
CompanyGetCheck(p, handle) ==
  /\ TurnOpen
  /\ inflight[p].op = "idle"
  /\ IF SelectCompanyByHandle(handle) = {}
     THEN /\ last' = Event("Company.get", "check", handle, "NotFoundError", <<>>, {})
          /\ UNCHANGED inflight
     ELSE /\ Suspend(p, "Company.get", handle)
          /\ last' = Event("Company.get", "check", handle, "pending", <<>>, {})
  /\ ReadOnly
  /\ UNCHANGED sqlVars

\* Company.get from the join on
CompanyGetSelect(p) ==
  /\ TurnOpen
  /\ inflight[p].op = "Company.get"
  /\ last' = Event("Company.get", "select", inflight[p].args, "ok", <<>>,
                   CompanyGetRows(inflight[p].args))
  /\ Resume(p)
  /\ ReadOnly
  /\ UNCHANGED sqlVars


\* An UPDATE's SET list is rejected before any row is touched when it names
\* a column the table does not have, or one column twice.
SetListOk(columns, tableColumns) ==
  /\ \A i \in 1..Len(columns) : columns[i] \in tableColumns
  /\ \A i, j \in 1..Len(columns) : columns[i] = columns[j] => i = j

\* Keys stay unique and every job still references a company.
TablesConsistent(cs, js) ==
  /\ \A a, b \in cs : a.handle = b.handle => a = b
  /\ \A a, b \in js : a.id = b.id => a = b
  /\ \A j \in js : JobReferenceOk(cs, j.company_handle)

StoreFailure == [status |-> "StorageError", companies |-> companies, jobs |-> jobs, rows |-> {}]

UpdateCompanies_EveryRow(columns, values, handle) ==
  IF ~SetListOk(columns, CompanyColumns) THEN StoreFailure
  ELSE LET updated == {ApplySet(r, columns, values) : r \in companies}
       IN IF Cardinality(updated) = Cardinality(companies) /\ TablesConsistent(updated, jobs)
          THEN [status |-> "ok", companies |-> updated, jobs |-> jobs, rows |-> updated]
          ELSE StoreFailure

\* UPDATE companies SET ${setCols} WHERE handle = $n RETURNING ...
UpdateCompanies(columns, values, handle) ==
  IF ~SetListOk(columns, CompanyColumns) THEN StoreFailure
  ELSE LET matched == SelectCompanyByHandle(handle)
           updated == {ApplySet(r, columns, values) : r \in matched}
           after == (companies \ matched) \cup updated
       IN IF Cardinality(after) = Cardinality(companies) /\ TablesConsistent(after, jobs)
          THEN [status |-> "ok", companies |-> after, jobs |-> jobs, rows |-> updated]
          ELSE StoreFailure

UpdateJobs_EveryRow(columns, values, id) ==
  IF ~SetListOk(columns, JobColumns) THEN StoreFailure
  ELSE LET updated == {ApplySet(r, columns, values) : r \in jobs}
       IN IF Cardinality(updated) = Cardinality(jobs) /\ TablesConsistent(companies, updated)
          THEN [status |-> "ok", companies |-> companies, jobs |-> updated, rows |-> updated]
          ELSE StoreFailure

\* UPDATE jobs SET ${setCols} WHERE id = $n RETURNING ...
UpdateJobs(columns, values, id) ==
  IF ~SetListOk(columns, JobColumns) THEN StoreFailure
  ELSE LET matched == SelectJobById(id)
           updated == {ApplySet(r, columns, values) : r \in matched}
           after == (jobs \ matched) \cup updated
       IN IF Cardinality(after) = Cardinality(jobs) /\ TablesConsistent(companies, after)
          THEN [status |-> "ok", companies |-> companies, jobs |-> after, rows |-> updated]
          ELSE StoreFailure

\* Company.update
CompanyUpdate(p, handle, data) ==
  /\ TurnOpen
  /\ inflight[p].op = "idle"
  /\ LET args == [handle |-> handle, data |-> data]
         q == sqlForPartialUpdate(data, CompanyJsToSql)
     IN IF q.status # "ok"
        THEN /\ last' = Event("Company.update", "call", args, q.status, <<>>, {})
             /\ UNCHANGED <<companies, jobs>>
        ELSE LET r == UpdateCompanies(q.columns, q.values, handle)
             IN IF r.status # "ok"
                THEN /\ last' = Event("Company.update", "call", args, r.status, <<>>, {})
                     /\ UNCHANGED <<companies, jobs>>
                ELSE IF r.rows = {}
                THEN /\ last' = Event("Company.update", "call", args, "NotFoundError", <<>>, {})
                     /\ UNCHANGED <<companies, jobs>>
                ELSE /\ companies' = r.companies
                     /\ last' = Event("Company.update", "call", args, "ok",
                                      <<CompanyRecord(CHOOSE x \in r.rows : TRUE)>>, {})
                     /\ UNCHANGED jobs
  /\ UNCHANGED <<nextId, inflight>>
  /\ UNCHANGED sqlVars

CompanyRemoveMissing_Never(deleted) == FALSE

\* Company.remove: !company, company being result.rows[0]
CompanyRemoveMissing(deleted) == deleted = {}

\* Company.remove: DELETE FROM companies WHERE handle = $1 RETURNING handle
CompanyRemove(p, handle) ==
  /\ TurnOpen
  /\ inflight[p].op = "idle"
  /\ LET deleted == SelectCompanyByHandle(handle)
     IN IF CompanyRemoveMissing(deleted)
        THEN /\ last' = Event("Company.remove", "call", handle, "NotFoundError", <<>>, {})
             /\ UNCHANGED <<companies, jobs>>
        ELSE /\ companies' = companies \ deleted
             /\ jobs' = jobs \ CascadedJobs(handle)
             /\ last' = Event("Company.remove", "call", handle, "ok", <<>>, {})
  /\ UNCHANGED <<nextId, inflight>>
  /\ UNCHANGED sqlVars

JobCreateCompanyMissing_Never(data) == FALSE

\* Job.create: companyCheck.rows.length === 0
JobCreateCompanyMissing(data) == SelectCompanyByHandle(data.companyHandle) = {}

\* Job.create up to its first await's result
JobCreateCheck(p, data) ==
  /\ TurnOpen
  /\ inflight[p].op = "idle"
  /\ nextId + PendingJobInserts <= MaxJobId
  /\ IF JobCreateCompanyMissing(data)
     THEN /\ last' = Event("Job.create", "check", data, "BadRequestError", <<>>, {})
          /\ UNCHANGED inflight
     ELSE /\ Suspend(p, "Job.create", data)
          /\ last' = Event("Job.create", "check", data, "pending", <<>>, {})
  /\ UNCHANGED <<companies, jobs, nextId>>
  /\ UNCHANGED sqlVars

\* Job.create from the INSERT on; the id sequence advances even when the
\* row is refused.
JobCreateInsert(p) ==
  /\ TurnOpen
  /\ inflight[p].op = "Job.create"
  /\ LET data == inflight[p].args
         row == JobRow(nextId, data)
     IN IF JobReferenceOk(companies, row.company_handle)
        THEN /\ jobs' = jobs \cup {row}
             /\ last' = Event("Job.create", "insert", data, "ok", <<CreatedJobRecord(row)>>, {})
        ELSE /\ last' = Event("Job.create", "insert", data, "StorageError", <<>>, {})
             /\ UNCHANGED jobs
  /\ nextId' = nextId + 1
  /\ Resume(p)
  /\ UNCHANGED companies
  /\ UNCHANGED sqlVars

\* Job.get's outcome in the current state: jobRes.rows[0] or NotFoundError
JobGetResult(id) ==
  LET found == SelectJobById(id)
  IN IF found = {}
     THEN [status |-> "NotFoundError", ret |-> <<>>]
     ELSE [status |-> "ok", ret |-> <<JobRecord(CHOOSE x \in found : TRUE)>>]

\* Job.get
JobGet(p, id) ==
  /\ TurnOpen
  /\ inflight[p].op = "idle"
  /\ last' = Event("Job.get", "call", id, JobGetResult(id).status, JobGetResult(id).ret, {})
  /\ ReadOnly
  /\ UNCHANGED inflight
  /\ UNCHANGED sqlVars

\* Job.update
JobUpdate(p, id, data) ==
  /\ TurnOpen
  /\ inflight[p].op = "idle"
  /\ LET args == [id |-> id, data |-> data]
         q == sqlForPartialUpdate(data, JobJsToSql)
     IN IF q.status # "ok"
        THEN /\ last' = Event("Job.update", "call", args, q.status, <<>>, {})
             /\ UNCHANGED <<companies, jobs>>
        ELSE LET r == UpdateJobs(q.columns, q.values, id)
             IN IF r.status # "ok"
                THEN /\ last' = Event("Job.update", "call", args, r.status, <<>>, {})
                     /\ UNCHANGED <<companies, jobs>>
                ELSE IF r.rows = {}
                THEN /\ last' = Event("Job.update", "call", args, "NotFoundError", <<>>, {})
                     /\ UNCHANGED <<companies, jobs>>
                ELSE /\ jobs' = r.jobs
                     /\ last' = Event("Job.update", "call", args, "ok",
                                      <<JobRecord(CHOOSE x \in r.rows : TRUE)>>, {})
                     /\ UNCHANGED companies
  /\ UNCHANGED <<nextId, inflight>>
  /\ UNCHANGED sqlVars

JobRemoveMissing_Never(deleted) == FALSE

\* Job.remove: !job, job being result.rows[0]
JobRemoveMissing(deleted) == deleted = {}

\* Job.remove: DELETE FROM jobs WHERE id = $1 RETURNING id
JobRemove(p, id) ==
  /\ TurnOpen
  /\ inflight[p].op = "idle"
  /\ LET deleted == SelectJobById(id)
     IN IF JobRemoveMissing(deleted)
        THEN /\ last' = Event("Job.remove", "call", id, "NotFoundError", <<>>, {})
             /\ UNCHANGED jobs
        ELSE /\ jobs' = jobs \ deleted
             /\ last' = Event("Job.remove", "call", id, "ok", <<>>, {})
  /\ UNCHANGED <<companies, nextId, inflight>>
  /\ UNCHANGED sqlVars

(***************************************************************************)
(* Searches: filterBy and findAll.                                         *)
(***************************************************************************)
\* The characters of the strings that occur as names, titles and search terms.
Chars(str) ==
  CASE str = "Acme" -> <<"A", "c", "m", "e">>
    [] str = "bolt" -> <<"b", "o", "l", "t">>
    [] str = "dev" -> <<"d", "e", "v">>
    [] str = "Ops" -> <<"O", "p", "s">>
    [] str = "AC" -> <<"A", "C">>
    [] str = "o_t" -> <<"o", "_", "t">>
    [] str = "DE" -> <<"D", "E">>
    [] str = "_p" -> <<"_", "p">>
    [] OTHER -> <<>>

\* ILIKE compares without regard to case.
LowerChar(ch) ==
  CASE ch = "A" -> "a"
    [] ch = "C" -> "c"
    [] ch = "D" -> "d"
    [] ch = "E" -> "e"
    [] ch = "O" -> "o"
    [] OTHER -> ch

\* One pattern character against one text character: _ matches any character.
LikeChar(tch, pch) == pch = "_" \/ LowerChar(pch) = LowerChar(tch)

RECURSIVE ILike(_, _)
\* text ILIKE pattern: % matches any run of characters, _ any one character.
ILike(text, pattern) ==
  IF Len(pattern) = 0 THEN Len(text) = 0
  ELSE IF Head(pattern) = "%"
       THEN \/ ILike(text, Tail(pattern))
            \/ Len(text) > 0 /\ ILike(Tail(text), pattern)
       ELSE /\ Len(text) > 0
            /\ LikeChar(Head(text), Head(pattern))
            /\ ILike(Tail(text), Tail(pattern))

\* '%' + term + '%'
LikePattern(term) == <<"%">> \o Chars(term.s) \o <<"%">>

\* num_employees BETWEEN lo AND hi; a comparison with NULL is not true.
Between(v, lo, hi) == v.t = "number" /\ lo.n <= v.n /\ v.n <= hi.n

\* salary >= lo
AtLeast(v, lo) == v.t = "number" /\ v.n >= lo.n

\* The hundredths in a NUMERIC value read back as text.
NumericHundredths(v) ==
  CASE v = Str("0.2") -> 20
    [] v = Str("0.30") -> 30
    [] OTHER -> 0

\* equity > 0
EquityPositive(v) == v.t = "string" /\ NumericHundredths(v) > 0

\* a || b
Or(a, b) == IF Truthy(a) THEN a ELSE b

DefaultMaxEmployees == 10000000

\* Company.filterBy's filters object
CompanyFilters(term) ==
  [name |-> Or(Lookup(term.entries, "name"), Null),
   minEmployees |-> Or(Lookup(term.entries, "minEmployees"), Num(0)),
   maxEmployees |-> Or(Lookup(term.entries, "maxEmployees"), Num(DefaultMaxEmployees))]

\* Company.filterBy: the range check, then one of three queries
CompanyFilterByResult(term) ==
  LET filters == CompanyFilters(term)
      name == Lookup(term.entries, "name")
      byName(c) == ILike(Chars(c.name.s), LikePattern(filters.name))
      byRange(c) == Between(c.num_employees, filters.minEmployees, filters.maxEmployees)
  IN IF filters.minEmployees.n > filters.maxEmployees.n
     THEN [status |-> "BadRequestError", rows |-> {}]
     ELSE IF \/ Truthy(name) /\ Truthy(Lookup(term.entries, "maxEmployees"))
             \/ Truthy(name) /\ Truthy(Lookup(term.entries, "minEmployees"))
     THEN [status |-> "ok",
           rows |-> {CompanyRecord(c) : c \in {x \in companies : byName(x) /\ byRange(x)}}]
     ELSE IF Truthy(name)
     THEN [status |-> "ok", rows |-> {CompanyRecord(c) : c \in {x \in companies : byName(x)}}]
     ELSE [status |-> "ok", rows |-> {CompanyRecord(c) : c \in {x \in companies : byRange(x)}}]

\* Company.filterBy
CompanyFilterBy(p, term) ==
  /\ TurnOpen
  /\ inflight[p].op = "idle"
  /\ last' = Event("Company.filterBy", "call", term, CompanyFilterByResult(term).status,
                   <<>>, CompanyFilterByResult(term).rows)
  /\ ReadOnly
  /\ UNCHANGED inflight
  /\ UNCHANGED sqlVars

\* Job.filterBy's filters object
JobFilters(term) ==
  [title |-> Or(Lookup(term.entries, "title"), Null),
   minSalary |-> Or(Lookup(term.entries, "minSalary"), Num(0)),
   hasEquity |-> Truthy(Lookup(term.entries, "hasEquity"))]

\* Job.filterBy: one of four queries
JobFilterByResult(term) ==
  LET filters == JobFilters(term)
      title == Lookup(term.entries, "title")
      byTitle(j) == ILike(Chars(j.title.s), LikePattern(filters.title))
      bySalary(j) == AtLeast(j.salary, filters.minSalary)
      found == IF Truthy(title) /\ filters.hasEquity
               THEN {j \in jobs : byTitle(j) /\ EquityPositive(j.equity) /\ bySalary(j)}
               ELSE IF Truthy(title)
               THEN {j \in jobs : byTitle(j) /\ bySalary(j)}
               ELSE IF filters.hasEquity
               THEN {j \in jobs : EquityPositive(j.equity) /\ bySalary(j)}
               ELSE {j \in jobs : bySalary(j)}
  IN [status |-> "ok", rows |-> {JobRecord(j) : j \in found}]

\* Job.filterBy
JobFilterBy(p, term) ==
  /\ TurnOpen
  /\ inflight[p].op = "idle"
  /\ last' = Event("Job.filterBy", "call", term, JobFilterByResult(term).status,
                   <<>>, JobFilterByResult(term).rows)
  /\ ReadOnly
  /\ UNCHANGED inflight
  /\ UNCHANGED sqlVars

\* The position of a character in the ordering of names.
CharRank(ch) ==
  CASE ch = "A" -> 1
    [] ch = "b" -> 2
    [] ch = "c" -> 3
    [] ch = "e" -> 4
    [] ch = "l" -> 5
    [] ch = "m" -> 6
    [] ch = "o" -> 7
    [] ch = "t" -> 8
    [] OTHER -> 0

RECURSIVE StrLess(_, _)
\* a sorts strictly before b, character by character
StrLess(a, b) ==
  IF Len(b) = 0 THEN FALSE
  ELSE IF Len(a) = 0 THEN TRUE
  ELSE IF CharRank(Head(a)) # CharRank(Head(b)) THEN CharRank(Head(a)) < CharRank(Head(b))
  ELSE StrLess(Tail(a), Tail(b))

NameOrdered_Descending(a, b) == ~StrLess(Chars(a.s), Chars(b.s))

\* ORDER BY name: a may come before b
NameOrdered(a, b) == ~StrLess(Chars(b.s), Chars(a.s))

\* The arrays that hold every row of a table once.
Arrays(tbl) ==
  { seq \in [1..Cardinality(tbl) -> tbl] :
      \A i, j \in 1..Cardinality(tbl) : i # j => seq[i] # seq[j] }

\* SELECT ... FROM companies ORDER BY name; rows of equal name come in any order
CompaniesByName ==
  { seq \in Arrays(companies) :
      \A i, j \in 1..Len(seq) : i < j => NameOrdered(seq[i].name, seq[j].name) }

\* SELECT ... FROM jobs ORDER BY id
JobsById ==
  { seq \in Arrays(jobs) :
      \A i, j \in 1..Len(seq) : i < j => seq[i].id.n <= seq[j].id.n }

\* Company.findAll
CompanyFindAll(p) ==
  /\ TurnOpen
  /\ inflight[p].op = "idle"
  /\ \E seq \in CompaniesByName :
       last' = Event("Company.findAll", "call", <<>>, "ok",
                     [i \in 1..Len(seq) |-> CompanyRecord(seq[i])], {})
  /\ ReadOnly
  /\ UNCHANGED inflight
  /\ UNCHANGED sqlVars

\* Job.findAll
JobFindAll(p) ==
  /\ TurnOpen
  /\ inflight[p].op = "idle"
  /\ \E seq \in JobsById :
       last' = Event("Job.findAll", "call", <<>>, "ok",
                     [i \in 1..Len(seq) |-> JobRecord(seq[i])], {})
  /\ ReadOnly
  /\ UNCHANGED inflight
  /\ UNCHANGED sqlVars

\* Criteria objects for Company.filterBy
CompanyTerms ==
  { Obj(<<>>),
    Obj(<<[k |-> "name", v |-> Str("AC")]>>),
    Obj(<<[k |-> "name", v |-> Str("o_t")]>>),
    Obj(<<[k |-> "minEmployees", v |-> Num(2)]>>),
    Obj(<<[k |-> "maxEmployees", v |-> Num(2)]>>),
    Obj(<<[k |-> "maxEmployees", v |-> Num(0)]>>),
    Obj(<<[k |-> "minEmployees", v |-> Num(5)], [k |-> "maxEmployees", v |-> Num(2)]>>),
    Obj(<<[k |-> "minEmployees", v |-> Num(2)], [k |-> "maxEmployees", v |-> Num(0)]>>),
    Obj(<<[k |-> "name", v |-> Str("AC")], [k |-> "minEmployees", v |-> Num(2)]>>),
    Obj(<<[k |-> "name", v |-> Str("AC")], [k |-> "maxEmployees", v |-> Num(2)]>>) }

\* Criteria objects for Job.filterBy
JobTerms ==
  { Obj(<<>>),
    Obj(<<[k |-> "title", v |-> Str("DE")]>>),
    Obj(<<[k |-> "title", v |-> Str("_p")]>>),
    Obj(<<[k |-> "minSalary", v |-> Num(15)]>>),
    Obj(<<[k |-> "hasEquity", v |-> Bool(TRUE)]>>),
    Obj(<<[k |-> "hasEquity", v |-> Bool(FALSE)], [k |-> "minSalary", v |-> Num(5)]>>),
    Obj(<<[k |-> "title", v |-> Str("DE")], [k |-> "hasEquity", v |-> Bool(TRUE)],
          [k |-> "minSalary", v |-> Num(5)]>>) }

(***************************************************************************)
(* The repositories against one store, called from concurrent requests.    *)
(***************************************************************************)
NoEvent ==
  [op |-> "none", stage |-> "", args |-> <<>>, status |-> "", ret |-> <<>>, rows |-> {},
   pre |-> [companies |-> {}, jobs |-> {}]]

\* The turn ends; the next continuation may run.
EndTurn ==
  /\ last.op # "none"
  /\ last' = NoEvent
  /\ UNCHANGED <<companies, jobs, nextId, inflight>>
  /\ UNCHANGED sqlVars

Init ==
  /\ companies = {}
  /\ jobs = {}
  /\ nextId = 1
  /\ inflight = [p \in Procs |-> Idle]
  /\ last = NoEvent
  /\ sqlIn = [data |-> Obj(<<>>), jsToSql |-> <<>>]
  /\ sqlOut = NotCalled

Next ==
  \/ \E p \in Procs, data \in NewCompanies : CompanyCreateCheck(p, data)
  \/ \E p \in Procs : CompanyCreateInsert(p)
  \/ \E p \in Procs, handle \in Handles : CompanyGetCheck(p, handle)
  \/ \E p \in Procs : CompanyGetSelect(p)
  \/ \E p \in Procs, handle \in Handles, data \in CompanyUpdates : CompanyUpdate(p, handle, data)
  \/ \E p \in Procs, handle \in Handles : CompanyRemove(p, handle)
  \/ \E p \in Procs, data \in NewJobs : JobCreateCheck(p, data)
  \/ \E p \in Procs : JobCreateInsert(p)
  \/ \E p \in Procs, id \in JobIds : JobGet(p, id)
  \/ \E p \in Procs, id \in JobIds, data \in JobUpdates : JobUpdate(p, id, data)
  \/ \E p \in Procs, id \in JobIds : JobRemove(p, id)
  \/ \E p \in Procs, term \in CompanyTerms : CompanyFilterBy(p, term)
  \/ \E p \in Procs, term \in JobTerms : JobFilterBy(p, term)
  \/ \E p \in Procs : CompanyFindAll(p)
  \/ \E p \in Procs : JobFindAll(p)
  \/ EndTurn

Spec == Init /\ [][Next]_vars

(***************************************************************************)
(* The compiler on its own, over every input.                              *)
(***************************************************************************)
SqlInit ==
  /\ sqlIn \in [data : SqlMappings \cup SqlNonObjects, jsToSql : SqlNameMaps]
  /\ sqlOut = NotCalled
  /\ companies = {}
  /\ jobs = {}
  /\ nextId = 1
  /\ inflight = [p \in Procs |-> Idle]
  /\ last = NoEvent

SqlCall ==
  /\ sqlOut = NotCalled
  /\ sqlOut' = sqlForPartialUpdate(sqlIn.data, sqlIn.jsToSql)
  /\ UNCHANGED sqlIn
  /\ UNCHANGED dbVars

SqlNext == SqlCall

SpecSql == SqlInit /\ [][SqlNext]_vars


(***************************************************************************)
(* Properties of the compiler (checked under SpecSql).                     *)
(***************************************************************************)
SqlCalled == sqlOut.status # "not called"
SqlDataKeys == [i \in 1..Len(sqlIn.data.entries) |-> sqlIn.data.entries[i].k]
SqlIsMapping == sqlIn.data.kind = "object"

RECURSIVE JoinedUpTo(_, _)
\* The first i >= 1 clauses separated by ", ".
JoinedUpTo(clauses, i) ==
  IF i = 1 THEN clauses[1] ELSE JoinedUpTo(clauses, i - 1) \o ", " \o clauses[i]

\* The output has one clause "<col(k_i)>"=$i per key, in order, joined by
\* ", ", and the values in the same order.
ClausesMatch(col(_)) ==
  LET n == Len(SqlDataKeys)
      clause(i) == "\"" \o col(SqlDataKeys[i]) \o "\"=$" \o ToString(i)
  IN /\ sqlOut.status = "ok"
     /\ Len(sqlOut.cols) = n
     /\ \A i \in 1..n : sqlOut.cols[i] = clause(i)
     /\ sqlOut.setCols = JoinedUpTo([i \in 1..n |-> clause(i)], n)
     /\ Len(sqlOut.values) = n
     /\ \A i \in 1..n : sqlOut.values[i] = sqlIn.data.entries[i].v

EntryOrKey(k) == IF HasKey(sqlIn.jsToSql, k) THEN Lookup(sqlIn.jsToSql, k).s ELSE k
NonEmptyEntryOrKey(k) ==
  IF HasKey(sqlIn.jsToSql, k) /\ Lookup(sqlIn.jsToSql, k).s # ""
  THEN Lookup(sqlIn.jsToSql, k).s ELSE k

SqlReturnsNothing == sqlOut.setCols = "" /\ sqlOut.cols = <<>> /\ sqlOut.values = <<>>

HandlesOf(cs) == {c.handle : c \in cs}
IdsOf(js) == {j.id : j \in js}
TablesUnchanged == companies = last.pre.companies /\ jobs = last.pre.jobs

\* C3: Company.create on a handle the table holds fails with BadRequestError
\* and leaves the table as it was; on a handle it does not hold, the call
\* goes on to its insert, which adds exactly one company with the given
\* fields and returns that record.
C3_CompanyCreate ==
  /\ (last.op = "Company.create" /\ last.stage = "check"
        /\ last.args.handle \in HandlesOf(last.pre.companies)) =>
       (last.status = "BadRequestError" /\ TablesUnchanged)
  /\ (last.op = "Company.create" /\ last.stage = "check"
        /\ last.args.handle \notin HandlesOf(last.pre.companies)) =>
       (last.status = "pending" /\ TablesUnchanged)
  /\ (last.op = "Company.create" /\ last.stage = "insert"
        /\ last.args.handle \notin HandlesOf(last.pre.companies)) =>
       /\ last.status = "ok"
       /\ Cardinality(companies) = Cardinality(last.pre.companies) + 1
       /\ \E c \in companies :
            /\ companies = last.pre.companies \cup {c}
            /\ c.handle = last.args.handle /\ c.name = last.args.name
            /\ c.description = last.args.description
            /\ c.num_employees = last.args.numEmployees /\ c.logo_url = last.args.logoUrl
       /\ last.ret = <<last.args>>
       /\ jobs = last.pre.jobs

\* A create was refused as a duplicate of a company whose other fields differ.
C3_Witness ==
  /\ last.op = "Company.create" /\ last.status = "BadRequestError"
  /\ \E c \in companies : c.handle = last.args.handle /\ c.name # last.args.name

\* C4: Job.create whose companyHandle matches no company fails with
\* BadRequestError and inserts no job.
C4_JobCreateUnknownCompany ==
  (last.op = "Job.create" /\ last.stage = "check"
     /\ last.args.companyHandle \notin HandlesOf(last.pre.companies)) =>
    (last.status = "BadRequestError" /\ TablesUnchanged)

\* A job for an unknown company was refused while another company exists.
C4_Witness ==
  /\ last.op = "Job.create" /\ last.status = "BadRequestError"
  /\ companies # {}

\* The equity handed to create, as the NUMERIC column shows it: the number
\* 0.20 reads "0.2", text reads as written.
GivenEquity(v) ==
  CASE v = Frac(0, 20) -> Str("0.2")
    [] v.t = "string" -> v
    [] OTHER -> Null

C6_JobsReferenceCompanies ==
  \A j \in jobs : \E c \in companies : c.handle = j.company_handle

\* A company that had jobs was removed.
C6_Witness ==
  /\ last.op = "Company.remove" /\ last.status = "ok"
  /\ \E j \in last.pre.jobs : j.company_handle = last.args

\* C7: no two companies share a handle and no two jobs share an id.
C7_KeysUnique ==
  /\ \A a, b \in companies : a.handle = b.handle => a = b
  /\ \A a, b \in jobs : a.id = b.id => a = b

\* Two creates of one handle raced: the second insert found the handle taken.
C7_Witness ==
  /\ last.op = "Company.create" /\ last.stage = "insert"
  /\ last.status = "StorageError"
  /\ Cardinality(jobs) = 2

\* C8: no Company.update changes the set of company handles.
C8_HandleImmutable ==
  last.op = "Company.update" => HandlesOf(companies) = HandlesOf(last.pre.companies)

\* C9: Job.update with a companyHandle field ends in the store's generic
\* failure and changes nothing.
C9_JobUpdateCompanyHandle ==
  (last.op = "Job.update" /\ HasKey(last.args.data.entries, "companyHandle")) =>
    (last.status = "StorageError" /\ TablesUnchanged)

\* An existing job was updated with a title and a companyHandle naming an
\* existing company.
C9_Witness ==
  /\ last.op = "Job.update" /\ last.status = "StorageError"
  /\ last.args.id \in IdsOf(jobs)
  /\ HasKey(last.args.data.entries, "title")
  /\ Lookup(last.args.data.entries, "companyHandle") \in HandlesOf(companies)

UnknownHandle(handle) == handle \notin HandlesOf(last.pre.companies)
NotFoundNoChange == last.status = "NotFoundError" /\ TablesUnchanged

\* C10 as stated: Company.get, Company.update with non-empty data and
\* Company.remove on a handle the table lacks fail with NotFoundError and
\* change neither table.
C10_Original ==
  /\ (last.op = "Company.get" /\ last.stage = "check" /\ UnknownHandle(last.args)) =>
       NotFoundNoChange
  /\ (last.op = "Company.update" /\ UnknownHandle(last.args.handle)
        /\ Len(last.args.data.entries) > 0) => NotFoundNoChange
  /\ (last.op = "Company.remove" /\ UnknownHandle(last.args)) => NotFoundNoChange

CompanyFields == {"handle", "name", "description", "numEmployees", "logoUrl"}

\* C10 amended: the same, for Company.update with non-empty data whose keys
\* are all among handle, name, description, numEmployees and logoUrl.
C10_Amended ==
  /\ (last.op = "Company.get" /\ last.stage = "check" /\ UnknownHandle(last.args)) =>
       NotFoundNoChange
  /\ (last.op = "Company.update" /\ UnknownHandle(last.args.handle)
        /\ Len(last.args.data.entries) > 0
        /\ \A i \in 1..Len(last.args.data.entries) :
             last.args.data.entries[i].k \in CompanyFields) => NotFoundNoChange
  /\ (last.op = "Company.remove" /\ UnknownHandle(last.args)) => NotFoundNoChange

\* An update of several fields missed its company while another one exists.
C10_Witness ==
  /\ last.op = "Company.update" /\ last.status = "NotFoundError"
  /\ Len(last.args.data.entries) > 1
  /\ companies # {}


UnknownId(id) == id \notin IdsOf(last.pre.jobs)
JobFields == {"title", "salary", "equity"}

\* C11: Job.get, Job.update with non-empty data naming only existing
\* columns, and Job.remove on an id the table lacks fail with NotFoundError
\* and leave the jobs table unchanged.
C11_JobNotFound ==
  /\ (last.op = "Job.get" /\ UnknownId(last.args)) => NotFoundNoChange
  /\ (last.op = "Job.update" /\ UnknownId(last.args.id)
        /\ Len(last.args.data.entries) > 0
        /\ \A i \in 1..Len(last.args.data.entries) :
             last.args.data.entries[i].k \in JobFields) => NotFoundNoChange
  /\ (last.op = "Job.remove" /\ UnknownId(last.args)) => NotFoundNoChange

\* An update of existing columns missed its job while another job exists.
C11_Witness ==
  /\ last.op = "Job.update" /\ last.status = "NotFoundError"
  /\ jobs # {}

\* C12: a successful Job.update sets exactly the columns named in data to
\* the given values, leaves the job's other columns and every other job
\* unchanged, returns the updated row with its id and companyHandle, and a
\* Job.get of that id then returns the same record.
C12_JobUpdateSuccess ==
  (last.op = "Job.update" /\ last.status = "ok") =>
    \E old \in last.pre.jobs : \E new \in jobs :
      /\ old.id = last.args.id /\ new.id = old.id
      /\ jobs = (last.pre.jobs \ {old}) \cup {new}
      /\ Cardinality(jobs) = Cardinality(last.pre.jobs)
      /\ \A f \in {"title", "salary", "equity", "company_handle"} :
           IF HasKey(last.args.data.entries, f)
           THEN new[f] = Lookup(last.args.data.entries, f)
           ELSE new[f] = old[f]
      /\ last.ret = <<[id |-> new.id, title |-> new.title, salary |-> new.salary,
                       equity |-> new.equity, companyHandle |-> new.company_handle]>>
      /\ JobGetResult(last.args.id).status = "ok"
      /\ JobGetResult(last.args.id).ret = last.ret
      /\ companies = last.pre.companies

\* A job's salary was set to null while another job exists.
C12_Witness ==
  /\ last.op = "Job.update" /\ last.status = "ok"
  /\ Lookup(last.args.data.entries, "salary") = Null
  /\ Cardinality(jobs) = 2
  /\ \E j \in jobs : j.id = last.args.id /\ j.salary = Null /\ j.title = Str("Ops")

\* The column a field of Company.update's data is stored in.
CompanyColumnOf(k) ==
  CASE k = "numEmployees" -> "num_employees"
    [] k = "logoUrl" -> "logo_url"
    [] OTHER -> k

\* C13: a successful Company.update changes only the columns of the fields
\* named in data (numEmployees in num_employees, logoUrl in logo_url) on
\* the company with that handle, leaves the other companies and all jobs
\* unchanged, and returns the company's record as it is afterwards.
C13_CompanyUpdateSuccess ==
  (last.op = "Company.update" /\ last.status = "ok") =>
    \E old \in last.pre.companies : \E new \in companies :
      /\ old.handle = last.args.handle
      /\ companies = (last.pre.companies \ {old}) \cup {new}
      /\ Cardinality(companies) = Cardinality(last.pre.companies)
      /\ \A f \in CompanyColumns :
           IF \E i \in 1..Len(last.args.data.entries) :
                CompanyColumnOf(last.args.data.entries[i].k) = f
           THEN \E i \in 1..Len(last.args.data.entries) :
                  /\ CompanyColumnOf(last.args.data.entries[i].k) = f
                  /\ new[f] = last.args.data.entries[i].v
           ELSE new[f] = old[f]
      /\ last.ret = <<[handle |-> new.handle, name |-> new.name,
                       description |-> new.description,
                       numEmployees |-> new.num_employees, logoUrl |-> new.logo_url]>>
      /\ jobs = last.pre.jobs

\* numEmployees and logoUrl of one company were changed while another
\* company and a job exist.
C13_Witness ==
  /\ last.op = "Company.update" /\ last.status = "ok"
  /\ HasKey(last.args.data.entries, "numEmployees")
  /\ \E c \in last.pre.companies : c.handle = last.args.handle /\ c.num_employees = Num(1)
  /\ \E c \in companies : c.handle = last.args.handle /\ c.num_employees = Num(3)
  /\ Cardinality(companies) = 2
  /\ jobs # {}

\* The value a criteria object supplies for a key, or a default.
Supplied(term, key, default) ==
  IF HasKey(term.entries, key) THEN Lookup(term.entries, key) ELSE default

\* sub occurs in text as a run of consecutive characters, case aside.
Contains(text, sub) ==
  \E i \in 0..(Len(text) - Len(sub)) :
    \A k \in 1..Len(sub) : LowerChar(text[i + k]) = LowerChar(sub[k])

MinAboveMax(term) ==
  /\ HasKey(term.entries, "minEmployees")
  /\ HasKey(term.entries, "maxEmployees")
  /\ Lookup(term.entries, "minEmployees").n > Lookup(term.entries, "maxEmployees").n

\* C14: Company.filterBy fails with BadRequestError, without querying, for
\* every criteria object whose supplied minEmployees is greater than its
\* supplied maxEmployees.
C14_MinAboveMaxRejected ==
  (last.op = "Company.filterBy" /\ MinAboveMax(last.args)) =>
    (last.status = "BadRequestError" /\ last.rows = {})

\* The companies the criteria describe: employee count in [min, max], name
\* containing the supplied name.
CompaniesMatching(term, tbl) ==
  { c \in tbl :
      /\ c.num_employees.t = "number"
      /\ Supplied(term, "minEmployees", Num(0)).n <= c.num_employees.n
      /\ HasKey(term.entries, "maxEmployees") =>
           c.num_employees.n <= Lookup(term.entries, "maxEmployees").n
      /\ HasKey(term.entries, "name") =>
           Contains(Chars(c.name.s), Chars(Lookup(term.entries, "name").s)) }

\* C15: for every valid criteria object Company.filterBy returns exactly
\* the companies whose employee count lies in [min, max] (min 0 and max
\* unbounded when not supplied) and whose name contains the supplied name,
\* case aside.
C15_CompanyFilterExact ==
  (last.op = "Company.filterBy" /\ ~MinAboveMax(last.args)) =>
    /\ last.status = "ok"
    /\ last.rows = {CompanyRecord(c) : c \in CompaniesMatching(last.args, last.pre.companies)}

\* The jobs the criteria describe: salary at least minSalary, equity above
\* zero when hasEquity is true, title containing the supplied title.
JobsMatching(term, tbl) ==
  { j \in tbl :
      /\ j.salary.t = "number"
      /\ Supplied(term, "minSalary", Num(0)).n <= j.salary.n
      /\ Lookup(term.entries, "hasEquity") = Bool(TRUE) =>
           (j.equity.t = "string" /\ j.equity \notin {Str("0")})
      /\ HasKey(term.entries, "title") =>
           Contains(Chars(j.title.s), Chars(Lookup(term.entries, "title").s)) }

\* C16: for every criteria object Job.filterBy returns exactly the jobs
\* whose salary is at least minSalary (default 0), whose equity is above 0
\* when hasEquity is true, and whose title contains the supplied title,
\* case aside.
C16_JobFilterExact ==
  last.op = "Job.filterBy" =>
    /\ last.status = "ok"
    /\ last.rows = {JobRecord(j) : j \in JobsMatching(last.args, last.pre.jobs)}

\* C17: Company.get on an existing handle returns one record of the
\* company's fields and a jobs collection holding exactly the jobs of that
\* company, empty when it has none.
C17_CompanyGetMerged ==
  (last.op = "Company.get" /\ last.stage = "select" /\ last.status = "ok") =>
    /\ Cardinality(last.rows) = 1
    /\ \A r \in last.rows :
         /\ DOMAIN r = {"handle", "name", "description", "numEmployees", "logoUrl", "jobs"}
         /\ r.handle = last.args
         /\ r.jobs = {JobRecord(j) : j \in {x \in last.pre.jobs : x.company_handle = last.args}}

C19_RemoveThenMissing ==
  /\ (last.op = "Company.remove" /\ last.status = "ok") =>
       /\ \E c \in last.pre.companies :
            /\ c.handle = last.args
            /\ companies = last.pre.companies \ {c}
            /\ Cardinality(companies) = Cardinality(last.pre.companies) - 1
       /\ last.ret = <<>>
       /\ CompanyGetResult(last.args).status = "NotFoundError"
       /\ CompanyRemoveMissing(SelectCompanyByHandle(last.args))
  /\ (last.op = "Job.remove" /\ last.status = "ok") =>
       /\ \E j \in last.pre.jobs :
            /\ j.id = last.args
            /\ jobs = last.pre.jobs \ {j}
            /\ Cardinality(jobs) = Cardinality(last.pre.jobs) - 1
       /\ last.ret = <<>>
       /\ JobGetResult(last.args).status = "NotFoundError"
       /\ JobRemoveMissing(SelectJobById(last.args))
       /\ companies = last.pre.companies
  /\ (last.op = "Company.remove" /\ ~UnknownHandle(last.args)) => last.status = "ok"
  /\ (last.op = "Job.remove" /\ ~UnknownId(last.args)) => last.status = "ok"

\* One of two jobs was removed.
C19_Witness ==
  /\ last.op = "Job.remove" /\ last.status = "ok"
  /\ Cardinality(last.pre.jobs) = 2
  /\ Cardinality(jobs) = 1

\* C20: Job.findAll returns every job exactly once in ascending id order,
\* and Company.findAll returns every company exactly once in ascending
\* name order.
C20_FindAllOrdered ==
  /\ last.op = "Job.findAll" =>
       /\ last.status = "ok"
       /\ Len(last.ret) = Cardinality(last.pre.jobs)
       /\ {last.ret[i] : i \in 1..Len(last.ret)} = {JobRecord(j) : j \in last.pre.jobs}
       /\ \A i, j \in 1..Len(last.ret) : i < j => last.ret[i].id.n < last.ret[j].id.n
  /\ last.op = "Company.findAll" =>
       /\ last.status = "ok"
       /\ Len(last.ret) = Cardinality(last.pre.companies)
       /\ {last.ret[i] : i \in 1..Len(last.ret)} = {CompanyRecord(c) : c \in last.pre.companies}
       /\ \A i, j \in 1..Len(last.ret) :
            i < j => ~StrLess(Chars(last.ret[j].name.s), Chars(last.ret[i].name.s))

\* Two companies were listed, the one with the later handle first because
\* its name sorts first.
C20_Witness ==
  /\ last.op = "Company.findAll"
  /\ Len(last.ret) = 2
  /\ last.ret[1].handle = Str("c2") /\ last.ret[1].name = Str("Acme")
  /\ last.ret[2].handle = Str("c1") /\ last.ret[2].name = Str("bolt")

\* C21: Job.create checks the company and inserts in two separate steps.
\* A call that passed the check stays in flight while other calls run; its
\* insert step does not repeat the check, so it never ends in
\* BadRequestError: it succeeds exactly when the company is there at the
\* time of the insert, and otherwise the store refuses the row.
C21_CheckThenInsert ==
  /\ (last.op = "Job.create" /\ last.stage = "check" /\ last.status = "pending") =>
       /\ ~UnknownHandle(last.args.companyHandle)
       /\ \E p \in Procs : inflight[p].op = "Job.create" /\ inflight[p].args = last.args
  /\ (last.op = "Job.create" /\ last.stage = "insert") =>
       /\ last.status # "BadRequestError"
       /\ last.status = "ok" <=> ~UnknownHandle(last.args.companyHandle)
       /\ UnknownHandle(last.args.companyHandle) =>
            (last.status = "StorageError" /\ TablesUnchanged)
  /\ (last.op = "Company.remove" /\ last.status = "ok") =>
       \A p \in Procs :
         (inflight[p].op = "Job.create" /\ inflight[p].args.companyHandle = last.args) =>
           JobCreateCompanyMissing(inflight[p].args)

\* Job.create reached its insert after the only company, which its check
\* had found, was removed.
C21_Witness ==
  /\ last.op = "Job.create" /\ last.stage = "insert"
  /\ last.status = "StorageError"
  /\ last.pre.companies = {}
  /\ jobs = {}

\* C22: Job.update and Company.update with an empty data object fail with
\* BadRequestError, not NotFoundError, whether or not the key exists, and
\* change no table.
C22_EmptyUpdateRejected ==
  (last.op \in {"Job.update", "Company.update"} /\ Len(last.args.data.entries) = 0) =>
    /\ last.status = "BadRequestError"
    /\ TablesUnchanged

\* An empty update was refused for a job that exists.
C22_Witness ==
  /\ last.op = "Job.update"
  /\ Len(last.args.data.entries) = 0
  /\ ~UnknownId(last.args.id)
  /\ last.status = "BadRequestError"


\* C23: Job.filterBy with an empty criteria object returns the same set of
\* jobs as Job.findAll, in every database state.
C23_EmptyFilterIsFindAll ==
  (last.op = "Job.filterBy" /\ Len(last.args.entries) = 0) =>
    \A all \in JobsById :
      last.rows = {JobRecord(all[i]) : i \in 1..Len(all)}

ReadOps ==
  {"Company.findAll", "Company.filterBy", "Company.get",
   "Job.findAll", "Job.filterBy", "Job.get"}
WriteOps ==
  {"Company.create", "Company.update", "Company.remove",
   "Job.create", "Job.update", "Job.remove"}

\* C24: a turn of Company.findAll, Company.filterBy, Company.get,
\* Job.findAll, Job.filterBy or Job.get leaves the companies and jobs
\* tables as they are, whatever its outcome; a turn that changes a table
\* belongs to a create, update or remove.
C24_ReadsChangeNothing ==
  [][ /\ last'.op \in ReadOps => (companies' = companies /\ jobs' = jobs)
      /\ (companies' # companies \/ jobs' # jobs) => last'.op \in WriteOps ]_vars

\* Company.get returned the rows of a company that has a job.
C24_Witness ==
  /\ last.op = "Company.get" /\ last.stage = "select" /\ last.status = "ok"
  /\ jobs # {} /\ companies # {}
  /\ TablesUnchanged

====
